---- MODULE Spec2Model ----
(***************************************************************************)
(* Snowflake -> MongoDB metadata sync (NestJS).                            *)
(*                                                                         *)
(*   MetadataService.syncMetadata   src/modules/metadata/metadata.service  *)
(*   SnowflakeService (SHOW-command extraction with created_on filter)     *)
(*   MongodbService   (bulk upsert, checksum, sync_stats run history)      *)
(*   MongodbService   (earlier per-table upsert, kept in the repository)   *)
(*                                                                         *)
(* Modelling conventions                                                   *)
(*   - SHA-256 is taken to be collision free: the digest of a text is the  *)
(*     text tagged "sha256".                                               *)
(*   - String.localeCompare orders the column names used by their rank;    *)
(*     Array.prototype.sort is stable.                                     *)
(*   - Time is a counter that advances with the events the program can     *)
(*     tell apart by their timestamps.                                     *)
(***************************************************************************)
EXTENDS Integers, Sequences, FiniteSets, TLC

VARIABLES
    now,            \* wall clock (Date.now())
    warehouse,      \* Snowflake account: triple -> [created_on, last_altered, columns]
    metadata,       \* collection `metadata`: set of documents
    syncStats,      \* collection `sync_stats`: sequence of documents (append order)
    createAttempts, \* the payloads the call in progress handed to syncStatsModel.create
    run,            \* locals and position of the syncMetadata call in progress
    nRuns,          \* number of syncMetadata calls started
    nDdl,           \* number of warehouse DDL statements executed
    call,           \* locals of a direct upsertMetadata call (bulk version)
    legacy,         \* locals of a per-table upsertMetadata call (earlier version)
    cs,             \* inputs and outputs of generateChecksum calls
    findOrder,      \* order in which the store returns the records of a find
    nFaults,        \* number of rejections the environment has injected into sync runs
    sf,             \* the SnowflakeService instance, its connections and the calls in progress
    ex,             \* a query handed to executeQuery and what became of it
    ext             \* a warehouse content handed to the extraction and what it returned

vars == <<now, warehouse, metadata, syncStats, createAttempts, run, nRuns, nDdl,
          call, legacy, cs, findOrder, nFaults, sf, ex, ext>>

(***************************************************************************)
(* Bounds                                                                  *)
(***************************************************************************)
MaxCols == 2        \* columns per table in the checksum specification
MaxTables == 2      \* tables per direct upsertMetadata call
MaxCalls == 2       \* direct upsertMetadata calls
MaxRuns == 2        \* syncMetadata calls
MaxDdl == 1         \* warehouse DDL statements
MaxFaults == 2      \* requests the environment rejects during sync runs
MaxCallers == 2     \* getAllTables calls that may overlap
MaxQueries == 2     \* queries of one extraction in the session specification
MaxBatch == 1       \* tables of one call when two calls overlap
MaxTime == 2        \* clock value up to which time passes without a DDL statement

None == "none"

(***************************************************************************)
(* Identifiers                                                             *)
(***************************************************************************)
\* (database, schema, table) triples of the account. U1 and U2 are distinct
\* triples whose quoted identifiers contain '.', U3 lives in a system database.
U1 == [database |-> "DB", schema |-> "A.B", table |-> "USERS"]
U2 == [database |-> "DB.A", schema |-> "B", table |-> "USERS"]
U3 == [database |-> "snowflake", schema |-> "PUBLIC", table |-> "USERS"]
\* U4 and U5 share the database of U1: U5 has the schema of U4 and the table
\* name of U1.
U4 == [database |-> "DB", schema |-> "PUBLIC", table |-> "ORDERS"]
U5 == [database |-> "DB", schema |-> "PUBLIC", table |-> "USERS"]
\* U6 is in the database of U1 and its schema and table name joined by '.'
\* read as those of U1.
U6 == [database |-> "DB", schema |-> "A", table |-> "B.USERS"]

Triples == {U1, U2, U3}

\* Listing order of SHOW commands and of ORDER BY database, schema, table.
TripleOrder == <<U6, U1, U4, U5, U2, U3>>

\* A find without sort returns the records in an order the store chooses (by
\* the index, ascending or descending); the order does not change while the
\* process runs.
FindOrders == {TripleOrder, <<U3, U2, U5, U4, U1, U6>>}

Col(n, t, b) == [name |-> n, type |-> t, nullable |-> b]

Range(s) == {s[i] : i \in 1..Len(s)}

\* The columns checksums are computed of. Two columns of one descriptor can
\* carry the same name: groupColumnsIntoTables pushes the rows of every table
\* whose key string is the same onto one descriptor.
ChecksumColumns ==
    {Col("ID", "NUMBER", FALSE), Col("FULL_NAME", "VARCHAR", TRUE),
     Col("NAME", "VARCHAR", TRUE), Col("NAME", "VARCHAR", FALSE),
     Col("NAME", "NUMBER", TRUE)}

ColumnSeqs(n) == UNION {[1..k -> ChecksumColumns] : k \in 0..n}

Triple(t) == [database |-> t.database, schema |-> t.schema, table |-> t.table]

\* SnowflakeTable
Table(u, cols) ==
    [database |-> u.database, schema |-> u.schema, table |-> u.table, columns |-> cols]

(***************************************************************************)
(* MongodbService.generateChecksum                                         *)
(***************************************************************************)
\* Collation rank of the column names under String.prototype.localeCompare.
NameRank(n) ==
    CASE n = "FULL_NAME" -> 1
      [] n = "ID" -> 2
      [] n = "NAME" -> 3

LocaleCompare(a, b) == NameRank(a) - NameRank(b)

\* One step of Array.prototype.sort (stable): c goes after every element that
\* does not compare greater than it.
RECURSIVE SortInsert(_, _)
SortInsert(sorted, c) ==
    IF sorted = <<>> THEN <<c>>
    ELSE IF LocaleCompare(Head(sorted).name, c.name) <= 0
         THEN <<Head(sorted)>> \o SortInsert(Tail(sorted), c)
         ELSE <<c>> \o sorted

RECURSIVE SortFrom(_, _)
SortFrom(cols, acc) ==
    IF cols = <<>> THEN acc ELSE SortFrom(Tail(cols), SortInsert(acc, Head(cols)))

\* table.columns.sort((a, b) => a.name.localeCompare(b.name))
SortColumns(cols) == SortFrom(cols, <<>>)

\* JSON.stringify of one column object: its keys in insertion order.
StringifyColumn(c) == <<"name", c.name, "type", c.type, "nullable", c.nullable>>

\* JSON.stringify({ columns: [...] }) for the table with identity u: the
\* object handed to it holds the columns alone.
JsonStringify(u, cols) == [i \in 1..Len(cols) |-> StringifyColumn(cols[i])]

Sha256Hex(data) == <<"sha256", data>>

GenerateChecksum(table) ==
    Sha256Hex(JsonStringify(Triple(table), SortColumns(table.columns)))

\* generateChecksum sorts table.columns in place: the caller's table afterwards.
AfterChecksum(table) == [table EXCEPT !.columns = SortColumns(@)]

(***************************************************************************)
(* MongodbService.upsertMetadata (bulk version)                            *)
(***************************************************************************)
\* `${x.database}.${x.schema}.${x.table}`
Key(x) == x.database \o "." \o x.schema \o "." \o x.table

ZeroCounts == [newTables |-> 0, updatedTables |-> 0, skippedTables |-> 0]

ErrFind == "Database error"
ErrDuplicateKey == "E11000 duplicate key error"
ErrBulkConnection == "connection lost during bulk write"

\* The tables after the checksum loop: every table's columns sorted in place.
SortedTables(tables) == [i \in 1..Len(tables) |-> AfterChecksum(tables[i])]

LastIndexOf(tables, k) ==
    CHOOSE i \in 1..Len(tables) :
        /\ Key(tables[i]) = k
        /\ \A j \in (i + 1)..Len(tables) : Key(tables[j]) # k

\* checksums: Map<key, checksum>, a later table of the same key overwrites.
Checksums(tables) ==
    [k \in {Key(tables[i]) : i \in 1..Len(tables)} |->
        GenerateChecksum(tables[LastIndexOf(tables, k)])]

\* metadataModel.find({ $or: [{database, schema, table}, ...] })
Find(store, tables) ==
    {d \in store : \E i \in 1..Len(tables) : Triple(d) = Triple(tables[i])}

\* Position of a triple in the order in which find returns the records.
Pos(order, u) == CHOOSE i \in 1..Len(order) : order[i] = u

\* existingMap: Map<key, record>, filled in the order of the find result: of the
\* found records of one key the one returned last stays.
ExistingMap(found, order) ==
    [k \in {Key(d) : d \in found} |->
        CHOOSE d \in found :
            /\ Key(d) = k
            /\ \A e \in found : Key(e) = k => Pos(order, Triple(e)) <= Pos(order, Triple(d))]

\* The mutant: a record is updated whenever it exists.
ClassifyAlwaysUpdate(table, checksums, existingMap) ==
    IF Key(table) \notin DOMAIN existingMap THEN "insertOne" ELSE "updateOne"

\* The branch taken for one table in the loop that prepares the operations.
Classify(table, checksums, existingMap) ==
    IF Key(table) \notin DOMAIN existingMap THEN "insertOne"
    ELSE IF existingMap[Key(table)].checksum # checksums[Key(table)] THEN "updateOne"
    ELSE "skip"

Classes(tables, checksums, existingMap) ==
    [i \in 1..Len(tables) |-> Classify(tables[i], checksums, existingMap)]

\* One entry of bulkOps. An insertOne carries the document, an updateOne the
\* filter triple and the $set of columns, checksum and lastSynced.
BulkOp(table, class, checksum, t) ==
    [op |-> class, triple |-> Triple(table), columns |-> table.columns,
     checksum |-> checksum, lastSynced |-> t]

\* The mutant: an unchanged table gets an updateOne that refreshes its record.
BulkOpsTouchAll(tables, checksums, existingMap, t) ==
    [i \in 1..Len(tables) |->
        LET class == Classify(tables[i], checksums, existingMap)
        IN BulkOp(tables[i], IF class = "skip" THEN "updateOne" ELSE class,
                  checksums[Key(tables[i])], t)]

BulkOps(tables, checksums, existingMap, t) ==
    LET all == [i \in 1..Len(tables) |->
                  BulkOp(tables[i], Classify(tables[i], checksums, existingMap),
                         checksums[Key(tables[i])], t)]
    IN SelectSeq(all, LAMBDA o : o.op # "skip")

DocOf(o) ==
    [database |-> o.triple.database, schema |-> o.triple.schema,
     table |-> o.triple.table, columns |-> o.columns, checksum |-> o.checksum,
     lastSynced |-> o.lastSynced]

\* The collection without the unique index: no insert is rejected.
InsertRejectedNever(store, o) == FALSE

\* MetadataSchema.index({database: 1, schema: 1, table: 1}, {unique: true}):
\* the insert of a second document of a triple is a write error.
InsertRejected(store, o) == \E d \in store : Triple(d) = o.triple

\* The mutant: an update deletes the record it matches and writes none.
ApplyOpReplacing(acc, o) ==
    LET hit == {d \in acc.store : Triple(d) = o.triple}
    IN IF o.op = "insertOne"
       THEN IF InsertRejected(acc.store, o)
            THEN [acc EXCEPT !.writeErrors = @ + 1]
            ELSE [acc EXCEPT !.store = @ \cup {DocOf(o)}, !.insertedCount = @ + 1]
       ELSE [acc EXCEPT !.store = @ \ hit, !.modifiedCount = @ + Cardinality(hit)]

\* One operation of the bulk on the server.
ApplyOp(acc, o) ==
    LET hit == {d \in acc.store : Triple(d) = o.triple}
    IN IF o.op = "insertOne"
       THEN IF InsertRejected(acc.store, o)
            THEN [acc EXCEPT !.writeErrors = @ + 1]
            ELSE [acc EXCEPT !.store = @ \cup {DocOf(o)}, !.insertedCount = @ + 1]
       ELSE IF hit = {}
            THEN acc
            ELSE LET d == CHOOSE x \in hit : TRUE
                     e == [d EXCEPT !.columns = o.columns, !.checksum = o.checksum,
                                    !.lastSynced = o.lastSynced]
                 IN [acc EXCEPT !.store = (@ \ {d}) \cup {e},
                                !.modifiedCount = @ + (IF e = d THEN 0 ELSE 1)]

\* metadataModel.bulkWrite(bulkOps, {ordered: false}): a write error does not
\* stop the operations after it; the first n operations reach the server.
RECURSIVE ApplyOps(_, _, _)
ApplyOps(ops, n, acc) ==
    IF n = 0 \/ ops = <<>> THEN acc
    ELSE ApplyOps(Tail(ops), n - 1, ApplyOp(acc, Head(ops)))

BulkWrite(store, ops, n) ==
    ApplyOps(ops, n, [store |-> store, insertedCount |-> 0, modifiedCount |-> 0,
                      writeErrors |-> 0])

\* skippedTables = tables.length - newTables - updatedTables
SkippedCount(len, newTables, updatedTables) == len - newTables - updatedTables

Min(a, b) == IF a < b THEN a ELSE b

\* The call without the early return.
EmptyInputNever(tables) == FALSE

\* if (tables.length === 0): the early return before the try block.
EmptyInput(tables) == Len(tables) = 0

\* The whole call on `store` at time t. findFails: the find rejects; order: the
\* order in which the store returns records; reach: how many bulk operations
\* reach the server before the connection is lost.
UpsertMetadata(store, tables, t, findFails, order, reach) ==
    LET sorted == SortedTables(tables)
        checksums == Checksums(tables)
        existingMap == ExistingMap(Find(store, tables), order)
        classes == Classes(sorted, checksums, existingMap)
        ops == BulkOps(sorted, checksums, existingMap, t)
        w == BulkWrite(store, ops, Min(reach, Len(ops)))
        base == [threw |-> FALSE, error |-> None, result |-> ZeroCounts,
                 store |-> store, tables |-> tables, classes |-> <<>>,
                 ops |-> <<>>, read |-> FALSE]
    IN IF EmptyInput(tables) THEN base
       ELSE IF findFails
       THEN [base EXCEPT !.threw = TRUE, !.error = ErrFind, !.tables = sorted,
                         !.read = TRUE]
       ELSE IF ops = <<>>
       THEN [base EXCEPT !.tables = sorted, !.classes = classes, !.read = TRUE,
                         !.result = [ZeroCounts EXCEPT !.skippedTables = Len(tables)]]
       ELSE IF reach < Len(ops) \/ w.writeErrors > 0
       THEN [base EXCEPT !.threw = TRUE, !.tables = sorted, !.classes = classes,
                         !.ops = ops, !.store = w.store, !.read = TRUE,
                         !.error = IF reach < Len(ops) THEN ErrBulkConnection
                                   ELSE ErrDuplicateKey]
       ELSE [base EXCEPT !.tables = sorted, !.classes = classes, !.ops = ops,
                         !.store = w.store, !.read = TRUE,
                         !.result = [newTables |-> w.insertedCount,
                                     updatedTables |-> w.modifiedCount,
                                     skippedTables |->
                                        SkippedCount(Len(tables), w.insertedCount,
                                                     w.modifiedCount)]]

(***************************************************************************)
(* Values of the variables a specification does not use                    *)
(***************************************************************************)
UsersV1 == <<Col("ID", "NUMBER", FALSE), Col("NAME", "VARCHAR", TRUE)>>
UsersV2 == <<Col("ID", "NUMBER", FALSE), Col("FULL_NAME", "VARCHAR", TRUE)>>

\* Column lists of the tables of the account.
ColumnLists == {UsersV1, UsersV2}

IdleRun == [pc |-> "idle"]
IdleCall == [pc |-> "idle"]
IdleLegacy == [pc |-> "idle"]
IdleCs == [pc |-> "idle"]
IdleSf == [pc |-> "idle"]
IdleEx == [pc |-> "idle"]
IdleExt == [pc |-> "idle"]

(***************************************************************************)
(* Direct calls of upsertMetadata (bulk version) on the catalog store      *)
(***************************************************************************)
\* The triples of the user databases.
UserTriples == {U1, U2}

InputTables ==
    UNION {[1..k -> {Table(u, c) : u \in UserTriples, c \in ColumnLists}] :
             k \in 0..MaxTables}

\* The ways one call can go: the find rejects, or it answers (in some order of
\* the records) and some of the bulk operations reach the server.
UpsertOutcomes(store, tables, t, order) ==
    {UpsertMetadata(store, tables, t, TRUE, order, 0)} \cup
    {UpsertMetadata(store, tables, t, FALSE, order, reach) :
       reach \in 0..Len(BulkOps(SortedTables(tables), Checksums(tables),
                                ExistingMap(Find(store, tables), order), t))}

CallRecord(n, repeat, tables, before, out) ==
    [pc |-> IF out.threw THEN "threw" ELSE "returned", n |-> n, repeat |-> repeat,
     input |-> tables, before |-> before, classes |-> out.classes, ops |-> out.ops,
     result |-> out.result, error |-> out.error, read |-> out.read]

IdleCallAt(n) ==
    [pc |-> "idle", n |-> n, repeat |-> FALSE, input |-> <<>>, before |-> {},
     classes |-> <<>>, ops |-> <<>>, result |-> ZeroCounts, error |-> None,
     read |-> FALSE]

InitUpsert ==
    /\ now = 0
    /\ warehouse = <<>>
    /\ metadata = {}
    /\ syncStats = <<>>
    /\ createAttempts = <<>>
    /\ run = IdleRun
    /\ nRuns = 0
    /\ nDdl = 0
    /\ call = IdleCallAt(0)
    /\ legacy = IdleLegacy
    /\ cs = IdleCs
    /\ findOrder \in FindOrders
    /\ nFaults = 0
    /\ sf = IdleSf
    /\ ex = IdleEx
    /\ ext = IdleExt

\* await mongodbService.upsertMetadata(tables), from call to return or throw.
UpsertCall ==
    /\ call.pc = "idle"
    /\ call.n < MaxCalls
    /\ \E tables \in InputTables :
         \E out \in UpsertOutcomes(metadata, tables, now, findOrder) :
            /\ metadata' = out.store
            /\ now' = now + 1
            /\ call' = CallRecord(call.n + 1, FALSE, tables, metadata, out)
    /\ UNCHANGED <<sf, ex, ext, warehouse, syncStats, createAttempts, run, nRuns, nDdl, legacy, cs,
                   findOrder, nFaults>>

\* The caller calls again with the tables of the call that just returned: the
\* same objects (their columns now sorted in place) or the same tables read anew.
UpsertRepeat ==
    /\ call.pc = "returned"
    /\ ~call.repeat
    /\ \E tables \in {call.input, SortedTables(call.input)} :
         \E out \in UpsertOutcomes(metadata, tables, now, findOrder) :
            /\ metadata' = out.store
            /\ now' = now + 1
            /\ call' = CallRecord(call.n, TRUE, tables, metadata, out)
    /\ UNCHANGED <<sf, ex, ext, warehouse, syncStats, createAttempts, run, nRuns, nDdl, legacy, cs,
                   findOrder, nFaults>>

\* The call's locals are dropped.
UpsertDone ==
    /\ call.pc # "idle"
    /\ call' = IdleCallAt(call.n)
    /\ UNCHANGED <<sf, ex, ext, now, warehouse, metadata, syncStats, createAttempts, run, nRuns,
                   nDdl, legacy, cs, findOrder, nFaults>>

NextUpsert == UpsertCall \/ UpsertRepeat \/ UpsertDone

UpsertSpec == InitUpsert /\ [][NextUpsert]_vars

(***************************************************************************)
(* SnowflakeService: extraction with SHOW commands                         *)
(***************************************************************************)
\* String.prototype.toUpperCase on the identifiers of the account.
ToUpperCase(name) ==
    CASE name = "snowflake" -> "SNOWFLAKE"
      [] OTHER -> name

IsSystemDatabase(dbName) == ToUpperCase(dbName) \in {"SNOWFLAKE", "INFORMATION_SCHEMA"}

IsSystemSchema(schemaName) == ToUpperCase(schemaName) = "INFORMATION_SCHEMA"

\* new Date(table.created_on || 0): a row without a creation time counts as
\* created at the epoch.
CreatedTimeFromEpoch(row) ==
    IF "created_on" \in DOMAIN row THEN {row.created_on}
    ELSE IF "CREATED_ON" \in DOMAIN row THEN {}
    ELSE {0}

\* new Date(table.created_on || table.CREATED_ON || Date.now()): {t} for the
\* time t, {} for an Invalid Date. A row carries a readable time in created_on,
\* a text that is no date in CREATED_ON, or neither.
CreatedTime(row) ==
    IF "created_on" \in DOMAIN row THEN {row.created_on}
    ELSE IF "CREATED_ON" \in DOMAIN row THEN {}
    ELSE {now}

\* shouldSkipTable with < for <=.
ShouldSkipTableBefore(row, lastSyncTime) ==
    IF lastSyncTime = {} THEN FALSE
    ELSE \E createdTime \in CreatedTime(row), since \in lastSyncTime : createdTime < since

\* lastSyncTime is {} when absent and {t} when present; row is a SHOW TABLES row.
\* A comparison with an Invalid Date is false.
ShouldSkipTable(row, lastSyncTime) ==
    IF lastSyncTime = {} THEN FALSE
    ELSE \E createdTime \in CreatedTime(row), since \in lastSyncTime : createdTime <= since

\* The queries of one extraction that may be rejected.
Q(kind, args) == <<kind>> \o args

Queries ==
    {Q("connect", <<>>), Q("SHOW DATABASES", <<>>)}
    \cup {Q("SHOW SCHEMAS", <<u.database>>) : u \in UserTriples}
    \cup {Q("SHOW TABLES", <<u.database, u.schema>>) : u \in UserTriples}
    \cup {Q("COLUMNS", <<u.database>>) : u \in UserTriples}
    \cup {Q("TABLE COLUMNS", <<u.database, u.schema, u.table>>) : u \in UserTriples}

FaultPlans == {F \in SUBSET Queries : Cardinality(F) <= MaxFaults}

\* getAllTablesInAccount: the nested loops over SHOW DATABASES, SHOW SCHEMAS and
\* SHOW TABLES, a rejected SHOW SCHEMAS or SHOW TABLES counting as no rows.
AllTablesInAccount(wh, lastSyncTime, F) ==
    SelectSeq(TripleOrder,
        LAMBDA u : /\ u \in DOMAIN wh
                   /\ ~IsSystemDatabase(u.database)
                   /\ Q("SHOW SCHEMAS", <<u.database>>) \notin F
                   /\ ~IsSystemSchema(u.schema)
                   /\ Q("SHOW TABLES", <<u.database, u.schema>>) \notin F
                   /\ ~ShouldSkipTable(wh[u], lastSyncTime))

\* groupColumnsIntoTables over the rows of one database. The rows of one table
\* are adjacent (ORDER BY schema, table, position) and come as one block.
RECURSIVE GroupColumnsIntoTables(_, _, _)
GroupColumnsIntoTables(database, blocks, acc) ==
    IF blocks = <<>> THEN acc
    ELSE LET b == Head(blocks)
             key == Key([database |-> database, schema |-> b.schema, table |-> b.table])
             at == {i \in 1..Len(acc) : Key(acc[i]) = key}
         IN GroupColumnsIntoTables(database, Tail(blocks),
                IF at = {}
                THEN Append(acc, [database |-> database, schema |-> b.schema,
                                  table |-> b.table, columns |-> b.columns])
                ELSE LET i == CHOOSE j \in at : TRUE
                     IN [acc EXCEPT ![i].columns = @ \o b.columns])

\* The rows of "<database>".INFORMATION_SCHEMA.COLUMNS WHERE TABLE_SCHEMA IN
\* (...) AND TABLE_NAME IN (...), one block per table.
ColumnBlocks(wh, database, candidates) ==
    LET inDb == SelectSeq(TripleOrder,
                   LAMBDA u : /\ u \in DOMAIN wh
                              /\ u.database = database
                              /\ \E i \in 1..Len(candidates) : candidates[i].schema = u.schema
                              /\ \E i \in 1..Len(candidates) : candidates[i].table = u.table)
    IN [i \in 1..Len(inDb) |->
          [schema |-> inDb[i].schema, table |-> inDb[i].table,
           columns |-> wh[inDb[i]].columns]]

\* getTablesWithIndividualColumnQueries: one column query per table, a rejected
\* query giving no columns.
TablesWithIndividualColumnQueries(wh, candidates, F) ==
    [i \in 1..Len(candidates) |->
        Table(candidates[i],
              IF Q("TABLE COLUMNS", <<candidates[i].database, candidates[i].schema,
                                      candidates[i].table>>) \in F
              THEN <<>> ELSE wh[candidates[i]].columns)]

\* getAllColumnsForDatabase without the catch block: a rejected batched query
\* gives no tables for the database.
AllColumnsForDatabaseNoFallback(wh, database, candidates, F) ==
    IF Q("COLUMNS", <<database>>) \in F THEN <<>>
    ELSE GroupColumnsIntoTables(database, ColumnBlocks(wh, database, candidates), <<>>)

\* getAllColumnsForDatabase
AllColumnsForDatabase(wh, database, candidates, F) ==
    IF Q("COLUMNS", <<database>>) \in F
    THEN TablesWithIndividualColumnQueries(wh, candidates, F)
    ELSE GroupColumnsIntoTables(database, ColumnBlocks(wh, database, candidates), <<>>)

\* The databases of the candidates, in the order groupTablesByDatabase meets them.
RECURSIVE DatabasesOf(_, _)
DatabasesOf(candidates, acc) ==
    IF candidates = <<>> THEN acc
    ELSE DatabasesOf(Tail(candidates),
            IF \E i \in 1..Len(acc) : acc[i] = Head(candidates).database
            THEN acc ELSE Append(acc, Head(candidates).database))

RECURSIVE ColumnsPerDatabase(_, _, _, _)
ColumnsPerDatabase(wh, dbs, candidates, F) ==
    IF dbs = <<>> THEN <<>>
    ELSE AllColumnsForDatabase(wh, Head(dbs),
            SelectSeq(candidates, LAMBDA c : c.database = Head(dbs)), F)
         \o ColumnsPerDatabase(wh, Tail(dbs), candidates, F)

\* getAllTablesOptimized
AllTablesOptimized(wh, lastSyncTime, F) ==
    LET candidates == AllTablesInAccount(wh, lastSyncTime, F)
    IN IF Len(candidates) = 0 THEN <<>>
       ELSE ColumnsPerDatabase(wh, DatabasesOf(candidates, <<>>), candidates, F)

ErrConnect == "Connection failed"
ErrQuery == "Permanent database error"

\* getAllTables: [threw, error, tables]. A rejected connect or SHOW DATABASES is
\* rethrown after the disconnect; e is the message of the rejected query.
GetAllTables(wh, lastSyncTime, F, e) ==
    IF Q("connect", <<>>) \in F
    THEN [threw |-> TRUE, error |-> ErrConnect, tables |-> <<>>]
    ELSE IF Q("SHOW DATABASES", <<>>) \in F
    THEN [threw |-> TRUE, error |-> e, tables |-> <<>>]
    ELSE [threw |-> FALSE, error |-> None,
          tables |-> AllTablesOptimized(wh, lastSyncTime, F)]

(***************************************************************************)
(* MongodbService.getSyncStats and saveSyncStats                           *)
(***************************************************************************)
MaxOf(S) == CHOOSE t \in S : \A x \in S : x <= t

\* getSyncStats without the {success: true} filter.
LastSyncTimeOfAnyRun(stats) ==
    IF Len(stats) = 0 THEN {} ELSE {MaxOf({stats[i].syncEndTime : i \in 1..Len(stats)})}

\* findOne({success: true}).sort({syncEndTime: -1}).select('syncEndTime'):
\* {} when there is no such document.
LastSyncTime(stats) ==
    LET ok == {i \in 1..Len(stats) : stats[i].success}
    IN IF ok = {} THEN {} ELSE {MaxOf({stats[i].syncEndTime : i \in ok})}

\* The document handed to syncStatsModel.create.
SyncStatsPayload(syncResponse, startTime, endTime) ==
    [syncStartTime |-> startTime, syncEndTime |-> endTime,
     success |-> syncResponse.success,
     totalTables |-> syncResponse.stats.totalTables,
     newTables |-> syncResponse.stats.newTables,
     updatedTables |-> syncResponse.stats.updatedTables,
     skippedTables |-> syncResponse.stats.skippedTables,
     processingTimeMs |-> syncResponse.stats.processingTimeMs,
     errors |-> syncResponse.errors, message |-> syncResponse.message]

\* The mutant: the rejection of create is passed on to the caller.
SaveSyncStatsRethrows(createFails) == createFails

\* Whether saveSyncStats throws: its catch logs the rejection of create.
SaveSyncStatsThrows(createFails) == FALSE

(***************************************************************************)
(* MetadataService.syncMetadata                                            *)
(***************************************************************************)
ErrStats == "sync stats read failed"
ErrSave == "Save failed"

\* Messages of a rejected SHOW DATABASES: an error may carry no message.
QueryErrors == {ErrQuery, ""}

\* error.message || 'Unknown error occurred'
ErrorMessage(message) == IF message = "" THEN "Unknown error occurred" ELSE message

\* The mutant: totalTables counts the written tables only.
SuccessResponseWrittenOnly(nTables, upsertResults, processingTimeMs) ==
    [success |-> TRUE, message |-> "Metadata sync completed successfully",
     stats |-> [totalTables |-> upsertResults.newTables + upsertResults.updatedTables,
                newTables |-> upsertResults.newTables,
                updatedTables |-> upsertResults.updatedTables,
                skippedTables |-> upsertResults.skippedTables,
                processingTimeMs |-> processingTimeMs],
     errors |-> <<>>]

\* { success: true, message, stats: { totalTables: tables.length, ...upsertResults,
\*   processingTimeMs } }
SuccessResponse(nTables, upsertResults, processingTimeMs) ==
    [success |-> TRUE, message |-> "Metadata sync completed successfully",
     stats |-> [totalTables |-> nTables,
                newTables |-> upsertResults.newTables,
                updatedTables |-> upsertResults.updatedTables,
                skippedTables |-> upsertResults.skippedTables,
                processingTimeMs |-> processingTimeMs],
     errors |-> <<>>]

\* The mutant: the failed run reports no error message.
FailureResponseNoErrors(message, processingTimeMs) ==
    [success |-> FALSE, message |-> "Metadata sync failed",
     stats |-> [totalTables |-> 0, newTables |-> 0, updatedTables |-> 0,
                skippedTables |-> 0, processingTimeMs |-> processingTimeMs],
     errors |-> <<>>]

\* The response built in the catch block for an error with this message.
FailureResponse(message, processingTimeMs) ==
    [success |-> FALSE, message |-> "Metadata sync failed",
     stats |-> [totalTables |-> 0, newTables |-> 0, updatedTables |-> 0,
                skippedTables |-> 0, processingTimeMs |-> processingTimeMs],
     errors |-> <<ErrorMessage(message)>>]

NoResponse ==
    [success |-> FALSE, message |-> None,
     stats |-> [totalTables |-> 0, newTables |-> 0, updatedTables |-> 0,
                skippedTables |-> 0, processingTimeMs |-> 0],
     errors |-> <<>>]

\* The locals of a syncMetadata call. failedAt, error: the step that threw and
\* the message of what it threw; changed: the tables that had a record and
\* whose columns were altered after lastSyncTime, as of the extraction;
\* faults: some query of the extraction was rejected;
\* createFailed: syncStatsModel.create rejected.
NewRun(t) ==
    [pc |-> "getSyncStats", startTime |-> t, endTime |-> t, lastSyncTime |-> {},
     faults |-> FALSE, tables |-> <<>>, changed |-> {}, upsertOk |-> FALSE,
     upsertResults |-> ZeroCounts, failedAt |-> None, error |-> None,
     response |-> NoResponse, createFailed |-> FALSE]

NoRun == [NewRun(0) EXCEPT !.pc = "idle"]

\* Control passes to the catch block at time t.
\* The mutant: the error is logged and the run goes on to the catalog write.
CaughtAndContinued(r, step, message, t) ==
    [r EXCEPT !.pc = "upsert", !.failedAt = step, !.error = message, !.endTime = t]

Caught(r, step, message, t) ==
    [r EXCEPT !.pc = "saveFailure", !.failedAt = step, !.error = message,
              !.endTime = t,
              !.response = FailureResponse(message, t - r.startTime)]

\* The tables with a record in the store whose columns were altered in the
\* warehouse after the last successful sync.
ChangedSince(wh, store, lastSyncTime) ==
    {u \in UserTriples \cap DOMAIN wh :
        /\ \E d \in store : Triple(d) = u /\ d.checksum # GenerateChecksum(Table(u, wh[u].columns))
        /\ \E since \in lastSyncTime : wh[u].last_altered > since}

(***************************************************************************)
(* The service: sync runs one after another against a warehouse whose      *)
(* tables are created and altered meanwhile. The clock advances with every *)
(* DDL statement, and a DDL statement is placed where a run can tell: not  *)
(* between two steps neither of which reads the warehouse or the clock.    *)
(* The environment rejects at most MaxFaults requests.                     *)
(***************************************************************************)
Row(t, cols) == [created_on |-> t, last_altered |-> t, columns |-> cols]

Init ==
    /\ now = 0
    /\ warehouse = [u \in {U1, U3} |-> Row(0, UsersV1)]
    /\ metadata = {}
    /\ syncStats = <<>>
    /\ createAttempts = <<>>
    /\ run = NoRun
    /\ nRuns = 0
    /\ nDdl = 0
    /\ call = IdleCall
    /\ legacy = IdleLegacy
    /\ cs = IdleCs
    /\ findOrder \in FindOrders
    /\ nFaults = 0
    /\ sf = IdleSf
    /\ ex = IdleEx
    /\ ext = IdleExt

\* CREATE TABLE in the warehouse.
CreateTable ==
    /\ nDdl < MaxDdl
    /\ run.pc \in {"idle", "returned", "upsert"}
    /\ \E u \in UserTriples \ DOMAIN warehouse, cols \in ColumnLists :
          warehouse' = [v \in DOMAIN warehouse \cup {u} |->
                           IF v = u THEN Row(now + 1, cols) ELSE warehouse[v]]
    /\ nDdl' = nDdl + 1
    /\ now' = now + 1
    /\ UNCHANGED <<sf, ex, ext, metadata, syncStats, createAttempts, run, nRuns, call, legacy, cs,
                   findOrder, nFaults>>

\* ALTER TABLE ... RENAME COLUMN in the warehouse.
AlterTable ==
    /\ nDdl < MaxDdl
    /\ run.pc \in {"idle", "returned", "upsert"}
    /\ \E u \in UserTriples \cap DOMAIN warehouse, cols \in ColumnLists :
          /\ cols # warehouse[u].columns
          /\ warehouse' = [warehouse EXCEPT ![u].columns = cols,
                                            ![u].last_altered = now + 1]
    /\ nDdl' = nDdl + 1
    /\ now' = now + 1
    /\ UNCHANGED <<sf, ex, ext, metadata, syncStats, createAttempts, run, nRuns, call, legacy, cs,
                   findOrder, nFaults>>

\* POST /metadata/sync: startTime = new Date()
SyncStart ==
    /\ run.pc \in {"idle", "returned"}
    /\ nRuns < MaxRuns
    /\ run' = NewRun(now)
    /\ nRuns' = nRuns + 1
    /\ createAttempts' = <<>>
    /\ UNCHANGED <<sf, ex, ext, now, warehouse, metadata, syncStats, nDdl, call,
                   legacy, cs, findOrder, nFaults>>

\* const lastSyncTime = await this.mongodbService.getSyncStats()
GetSyncStats ==
    /\ run.pc = "getSyncStats"
    /\ \E fails \in BOOLEAN :
          /\ fails => nFaults < MaxFaults
          /\ nFaults' = IF fails THEN nFaults + 1 ELSE nFaults
          /\ run' = IF fails THEN Caught(run, "getSyncStats", ErrStats, now)
                    ELSE [run EXCEPT !.pc = "getAllTables",
                                     !.lastSyncTime = LastSyncTime(syncStats)]
    /\ UNCHANGED <<sf, ex, ext, now, warehouse, metadata, syncStats, createAttempts, nRuns, nDdl,
                   call, legacy, cs, findOrder>>

\* const tables = await this.snowflakeService.getAllTables(lastSyncTime)
GetAllTablesStep ==
    /\ run.pc = "getAllTables"
    /\ \E F \in FaultPlans, e \in QueryErrors :
          LET r == GetAllTables(warehouse, run.lastSyncTime, F, e)
          IN /\ nFaults + Cardinality(F) <= MaxFaults
             /\ (Q("SHOW DATABASES", <<>>) \notin F \/ Q("connect", <<>>) \in F) => e = ErrQuery
             /\ nFaults' = nFaults + Cardinality(F)
             /\ run' = IF r.threw
                       THEN Caught([run EXCEPT !.faults = F # {}], "getAllTables", r.error, now)
                       ELSE [run EXCEPT !.pc = "upsert", !.faults = F # {}, !.tables = r.tables,
                                        !.changed = ChangedSince(warehouse, metadata,
                                                                 run.lastSyncTime)]
    /\ UNCHANGED <<sf, ex, ext, now, warehouse, metadata, syncStats, createAttempts, nRuns, nDdl,
                   call, legacy, cs, findOrder>>

\* const upsertResults = await this.mongodbService.upsertMetadata(tables), and
\* the success response.
UpsertStep ==
    /\ run.pc = "upsert"
    /\ \E findFails \in BOOLEAN :
       \E reach \in 0..Len(BulkOps(SortedTables(run.tables), Checksums(run.tables),
                                   ExistingMap(Find(metadata, run.tables), findOrder), now)) :
          LET out == UpsertMetadata(metadata, run.tables, now, findFails, findOrder, reach)
              injected == (findFails /\ Len(run.tables) > 0) \/ reach < Len(out.ops)
          IN /\ injected => nFaults < MaxFaults
             /\ nFaults' = IF injected THEN nFaults + 1 ELSE nFaults
             /\ metadata' = out.store
             /\ run' = IF out.threw
                       THEN Caught([run EXCEPT !.tables = out.tables], "upsertMetadata",
                                   out.error, now)
                       ELSE [run EXCEPT !.pc = "saveSuccess", !.tables = out.tables,
                                        !.upsertOk = TRUE, !.upsertResults = out.result,
                                        !.endTime = now,
                                        !.response = SuccessResponse(Len(run.tables), out.result,
                                                                     now - run.startTime)]
    /\ UNCHANGED <<sf, ex, ext, now, warehouse, syncStats, createAttempts, nRuns, nDdl, call, legacy,
                   cs, findOrder>>

\* await this.mongodbService.saveSyncStats(successResponse, ...) in the try
\* block, then return successResponse.
SaveSuccess ==
    /\ run.pc = "saveSuccess"
    /\ \E createFails \in BOOLEAN :
          LET payload == SyncStatsPayload(run.response, run.startTime, run.endTime)
          IN /\ createFails => nFaults < MaxFaults
             /\ nFaults' = IF createFails THEN nFaults + 1 ELSE nFaults
             /\ createAttempts' = Append(createAttempts, payload)
             /\ syncStats' = IF createFails THEN syncStats ELSE Append(syncStats, payload)
             /\ run' = IF SaveSyncStatsThrows(createFails)
                       THEN Caught([run EXCEPT !.createFailed = TRUE], "saveSyncStats",
                                   ErrSave, now)
                       ELSE [run EXCEPT !.pc = "returned", !.createFailed = createFails]
    /\ UNCHANGED <<sf, ex, ext, now, warehouse, metadata, nRuns, nDdl, call, legacy, cs, findOrder>>

\* await this.mongodbService.saveSyncStats(failureResponse, ...) in the catch
\* block, then return failureResponse.
SaveFailure ==
    /\ run.pc = "saveFailure"
    /\ \E createFails \in BOOLEAN :
          LET payload == SyncStatsPayload(run.response, run.startTime, run.endTime)
          IN /\ createFails => nFaults < MaxFaults
             /\ nFaults' = IF createFails THEN nFaults + 1 ELSE nFaults
             /\ createAttempts' = Append(createAttempts, payload)
             /\ syncStats' = IF createFails THEN syncStats ELSE Append(syncStats, payload)
             /\ run' = [run EXCEPT !.pc = IF SaveSyncStatsThrows(createFails)
                                          THEN "raised" ELSE "returned",
                                   !.createFailed = createFails]
    /\ UNCHANGED <<sf, ex, ext, now, warehouse, metadata, nRuns, nDdl, call, legacy, cs, findOrder>>

Next ==
    \/ CreateTable
    \/ AlterTable
    \/ SyncStart
    \/ GetSyncStats
    \/ GetAllTablesStep
    \/ UpsertStep
    \/ SaveSuccess
    \/ SaveFailure

Spec == Init /\ [][Next]_vars

\* Time passes while upsertMetadata is awaited, before const endTime = new Date().
TimePasses ==
    /\ run.pc = "upsert"
    /\ now < MaxTime
    /\ now' = now + 1
    /\ UNCHANGED <<sf, ex, ext, warehouse, metadata, syncStats, createAttempts, run, nRuns,
                   nDdl, call, legacy, cs, findOrder, nFaults>>

\* Sync runs against a warehouse in which tables are created, the clock
\* advancing between the steps of a run also when no table is created.
NextClock ==
    \/ CreateTable
    \/ TimePasses
    \/ SyncStart
    \/ GetSyncStats
    \/ GetAllTablesStep
    \/ UpsertStep
    \/ SaveSuccess
    \/ SaveFailure

ClockSpec == Init /\ [][NextClock]_vars

\* The store holds the records of one table at most, so the order in which a
\* find returns records plays no part.
InitRun == Init /\ findOrder = TripleOrder

\* The steps of syncMetadata calls on a warehouse that does not change.
NextRun ==
    \/ SyncStart
    \/ GetSyncStats
    \/ GetAllTablesStep
    \/ UpsertStep
    \/ SaveSuccess
    \/ SaveFailure

\* Every awaited call of a run that was started settles: the promise of each
\* warehouse and store request resolves or rejects.
RunSpec ==
    /\ InitRun
    /\ [][NextRun]_vars
    /\ WF_vars(GetSyncStats \/ GetAllTablesStep \/ UpsertStep \/ SaveSuccess \/ SaveFailure)

\* The service after a first sync of the account whose saveSyncStats logged a
\* rejected create: the catalog holds the records of the account's tables and
\* no successful run is on record, so the next run extracts the whole account.
InitResync ==
    /\ now = 1
    /\ warehouse \in [{U1, U3} -> {Row(0, UsersV1), Row(0, UsersV2)}]
    /\ metadata = UpsertMetadata({}, AllTablesOptimized(warehouse, {}, {}), 0, FALSE,
                                 TripleOrder, 1).store
    /\ syncStats = <<>>
    /\ createAttempts = <<>>
    /\ run = NoRun
    /\ nRuns = 0
    /\ nDdl = 0
    /\ call = IdleCall
    /\ legacy = IdleLegacy
    /\ cs = IdleCs
    /\ findOrder = TripleOrder
    /\ nFaults = 0
    /\ sf = IdleSf
    /\ ex = IdleEx
    /\ ext = IdleExt

\* Further syncMetadata calls on the warehouse, which does not change.
ResyncSpec == InitResync /\ [][NextRun]_vars

(***************************************************************************)
(* The earlier MongodbService: upsertMetadata handles the tables one by    *)
(* one, each inside its own try/catch.                                     *)
(***************************************************************************)
\* One turn of the loop. rejects: a store request of this turn (findOne,
\* create or updateOne) is rejected; the catch logs it and the loop goes on.
LegacyTurn(acc, table, rejects, t) ==
    LET checksum == GenerateChecksum(table)
        sorted == AfterChecksum(table)
        existing == {d \in acc.store : Triple(d) = Triple(table)}
    IN IF rejects THEN acc
       ELSE IF existing = {}
       THEN [acc EXCEPT !.store = @ \cup {DocOf(BulkOp(sorted, "insertOne", checksum, t))},
                        !.result.newTables = @ + 1]
       ELSE LET d == CHOOSE x \in existing : TRUE
            IN IF d.checksum # checksum
               THEN [acc EXCEPT !.store = (@ \ {d}) \cup
                                   {[d EXCEPT !.columns = sorted.columns,
                                              !.checksum = checksum, !.lastSynced = t]},
                                !.result.updatedTables = @ + 1]
               ELSE [acc EXCEPT !.result.skippedTables = @ + 1]

RECURSIVE LegacyLoop(_, _, _, _, _)
LegacyLoop(tables, i, failing, t, acc) ==
    IF i > Len(tables) THEN acc
    ELSE LegacyLoop(tables, i + 1, failing, t, LegacyTurn(acc, tables[i], i \in failing, t))

\* upsertMetadata of the earlier version: [store, result]. failing: the turns
\* in which the store rejects a request.
LegacyUpsertMetadata(store, tables, failing, t) ==
    LegacyLoop(tables, 1, failing, t, [store |-> store, result |-> ZeroCounts])

IdleLegacyAt(n) ==
    [pc |-> "idle", n |-> n, input |-> <<>>, failing |-> {}, before |-> {},
     result |-> ZeroCounts]

InitLegacy ==
    /\ now = 0
    /\ warehouse = <<>>
    /\ metadata = {}
    /\ syncStats = <<>>
    /\ createAttempts = <<>>
    /\ run = IdleRun
    /\ nRuns = 0
    /\ nDdl = 0
    /\ call = IdleCall
    /\ legacy = IdleLegacyAt(0)
    /\ cs = IdleCs
    /\ findOrder = TripleOrder
    /\ nFaults = 0
    /\ sf = IdleSf
    /\ ex = IdleEx
    /\ ext = IdleExt

\* await mongodbService.upsertMetadata(tables), from call to return.
LegacyCall ==
    /\ legacy.pc = "idle"
    /\ legacy.n < MaxCalls
    /\ \E tables \in InputTables :
       \E failing \in SUBSET (1..Len(tables)) :
          LET out == LegacyUpsertMetadata(metadata, tables, failing, now)
          IN /\ metadata' = out.store
             /\ legacy' = [pc |-> "returned", n |-> legacy.n + 1, input |-> tables,
                           failing |-> failing, before |-> metadata,
                           result |-> out.result]
    /\ now' = now + 1
    /\ UNCHANGED <<sf, ex, ext, warehouse, syncStats, createAttempts, run, nRuns, nDdl, call, cs,
                   findOrder, nFaults>>

\* The call's locals are dropped.
LegacyDone ==
    /\ legacy.pc = "returned"
    /\ legacy' = IdleLegacyAt(legacy.n)
    /\ UNCHANGED <<sf, ex, ext, now, warehouse, metadata, syncStats, createAttempts, run, nRuns,
                   nDdl, call, cs, findOrder, nFaults>>

NextLegacy == LegacyCall \/ LegacyDone

LegacySpec == InitLegacy /\ [][NextLegacy]_vars

(***************************************************************************)
(* generateChecksum on pairs of tables                                     *)
(***************************************************************************)
ChecksumInputs ==
    {[pc |-> "idle", in1 |-> Table(U1, a), in2 |-> Table(u, b)] :
        a \in ColumnSeqs(MaxCols), b \in ColumnSeqs(MaxCols), u \in UserTriples}

InitChecksum ==
    /\ now = 0
    /\ warehouse = <<>>
    /\ metadata = {}
    /\ syncStats = <<>>
    /\ createAttempts = <<>>
    /\ run = IdleRun
    /\ nRuns = 0
    /\ nDdl = 0
    /\ call = IdleCall
    /\ legacy = IdleLegacy
    /\ cs \in ChecksumInputs
    /\ findOrder = TripleOrder
    /\ nFaults = 0
    /\ sf = IdleSf
    /\ ex = IdleEx
    /\ ext = IdleExt

\* c1 = generateChecksum(in1); c2 = generateChecksum(in2); then once more on
\* in1, whose columns the first call has sorted in place.
ComputeChecksums ==
    /\ cs.pc = "idle"
    /\ cs' = [pc |-> "done", in1 |-> cs.in1, in2 |-> cs.in2,
              c1 |-> GenerateChecksum(cs.in1), c2 |-> GenerateChecksum(cs.in2),
              t1 |-> AfterChecksum(cs.in1), t2 |-> AfterChecksum(cs.in2),
              again |-> GenerateChecksum(AfterChecksum(cs.in1))]
    /\ UNCHANGED <<sf, ex, ext, now, warehouse, metadata, syncStats, createAttempts, run, nRuns,
                   nDdl, call, legacy, findOrder, nFaults>>

NextChecksum == ComputeChecksums

ChecksumSpec == InitChecksum /\ [][NextChecksum]_vars

(***************************************************************************)
(* SnowflakeService.getAllTables called by sync runs of one process. The   *)
(* service is a singleton: connection and queryCount are fields of the one *)
(* instance. A call yields at every await (connect, each query, destroy)   *)
(* and the calls of other runs proceed meanwhile. The connection a call    *)
(* creates is named after the call.                                        *)
(***************************************************************************)
Callers == 1..MaxCallers

ErrMissingEnv == "Missing required Snowflake environment variables"

\* connect() without the check of the environment.
EnvVarsUnchecked(env) == FALSE

\* checkEnvVars(): whether it throws; env tells whether every required
\* variable is set.
EnvVarsMissing(env) == ~env

\* The locals of a getAllTables call and what it did so far: onConn is the
\* connection its pending request was issued on, executed the number of its
\* executeQuery calls, used the connections they were issued on, destroyed the
\* connections it called destroy on, logged the counter its disconnect reported,
\* response what the catch block of syncMetadata makes of a rethrown error.
IdleCaller ==
    [pc |-> "idle", onConn |-> 0, executed |-> 0, remaining |-> 0, used |-> {},
     destroyed |-> {}, reset |-> FALSE, threw |-> FALSE, error |-> None, logged |-> 0,
     response |-> NoResponse]

\* disconnect(): this.connection.destroy(...) on the connection the field holds now.
Disconnect(s, c, threw, error) ==
    [s EXCEPT !.callers[c].pc = "disconnecting",
              !.callers[c].onConn = s.connection,
              !.callers[c].destroyed = @ \cup {s.connection},
              !.callers[c].threw = threw,
              !.callers[c].error = error]

\* executeQuery(): this.queryCount++, then this.connection.execute(...) on the
\* connection the field holds now.
ExecuteQuery(s, c) ==
    [s EXCEPT !.queryCount = @ + 1,
              !.callers[c].pc = "query",
              !.callers[c].onConn = s.connection,
              !.callers[c].executed = @ + 1,
              !.callers[c].remaining = @ - 1,
              !.callers[c].used = @ \cup {s.connection}]

InitSession ==
    /\ now = 0
    /\ warehouse = [u \in {U1} |-> Row(0, UsersV1)]
    /\ metadata = {}
    /\ syncStats = <<>>
    /\ createAttempts = <<>>
    /\ run = IdleRun
    /\ nRuns = 0
    /\ nDdl = 0
    /\ call = IdleCall
    /\ legacy = IdleLegacy
    /\ cs = IdleCs
    /\ findOrder = TripleOrder
    /\ nFaults = 0
    /\ \E env \in BOOLEAN :
         sf = [pc |-> "serving", env |-> env, connection |-> 0, queryCount |-> 0,
               conns |-> [i \in Callers |-> "none"],
               callers |-> [c \in Callers |-> IdleCaller]]
    /\ ex = IdleEx
    /\ ext = IdleExt

\* getAllTables up to its first await: this.connection = this.createConnection()
\* and connect(), which throws when an environment variable is missing and
\* otherwise calls this.connection.connect(...).
GetAllTablesCall ==
    /\ \E c \in Callers :
          /\ sf.callers[c].pc = "idle"
          /\ LET s == [sf EXCEPT !.connection = c, !.conns[c] = "created"]
             IN sf' = IF ~EnvVarsMissing(sf.env)
                      THEN [s EXCEPT !.callers[c].pc = "connecting", !.callers[c].onConn = c]
                      ELSE Disconnect(s, c, TRUE, ErrMissingEnv)
    /\ UNCHANGED <<now, warehouse, metadata, syncStats, createAttempts, run, nRuns, nDdl,
                   call, legacy, cs, findOrder, nFaults, ex, ext>>

\* The callback of connection.connect: on success this.queryCount = 0 and the
\* first query of the extraction; on failure the catch block.
ConnectDone ==
    /\ \E c \in Callers, ok \in BOOLEAN, n \in 1..MaxQueries :
          /\ sf.callers[c].pc = "connecting"
          /\ ~ok => n = 1
          /\ sf' = IF ok
                   THEN ExecuteQuery([sf EXCEPT !.conns[sf.callers[c].onConn] = "open",
                                                !.queryCount = 0,
                                                !.callers[c].reset = TRUE,
                                                !.callers[c].remaining = n], c)
                   ELSE Disconnect(sf, c, TRUE, ErrConnect)
    /\ UNCHANGED <<now, warehouse, metadata, syncStats, createAttempts, run, nRuns, nDdl,
                   call, legacy, cs, findOrder, nFaults, ex, ext>>

\* The complete callback of connection.execute. A query issued on a connection
\* that is not open fails. The failure of the first query (SHOW DATABASES) is
\* rethrown, the failure of a later one is caught where it was issued. Then the
\* next query, or the disconnect when none is left.
ExecuteQueryDone ==
    /\ \E c \in Callers, ok \in BOOLEAN :
          /\ sf.callers[c].pc = "query"
          /\ ok => sf.conns[sf.callers[c].onConn] = "open"
          /\ sf' = IF ~ok /\ sf.callers[c].executed = 1
                   THEN Disconnect(sf, c, TRUE, ErrQuery)
                   ELSE IF sf.callers[c].remaining > 0
                   THEN ExecuteQuery(sf, c)
                   ELSE Disconnect(sf, c, FALSE, None)
    /\ UNCHANGED <<now, warehouse, metadata, syncStats, createAttempts, run, nRuns, nDdl,
                   call, legacy, cs, findOrder, nFaults, ex, ext>>

\* The callback of connection.destroy: the log line with this.queryCount, then
\* getAllTables returns or rethrows, and syncMetadata answers what is rethrown
\* with its failure response.
DisconnectDone ==
    /\ \E c \in Callers :
          /\ sf.callers[c].pc = "disconnecting"
          /\ sf' = [sf EXCEPT !.conns[sf.callers[c].onConn] =
                                  IF @ = "open" THEN "destroyed" ELSE @,
                              !.callers[c].pc = "done",
                              !.callers[c].logged = sf.queryCount,
                              !.callers[c].response =
                                  IF sf.callers[c].threw
                                  THEN FailureResponse(sf.callers[c].error, 0)
                                  ELSE NoResponse]
    /\ UNCHANGED <<now, warehouse, metadata, syncStats, createAttempts, run, nRuns, nDdl,
                   call, legacy, cs, findOrder, nFaults, ex, ext>>

NextSession ==
    \/ GetAllTablesCall
    \/ ConnectDone
    \/ ExecuteQueryDone
    \/ DisconnectDone

SessionSpec == InitSession /\ [][NextSession]_vars

(***************************************************************************)
(* The retrying query executor. The two versions of executeQuery in        *)
(* snowflake.service.ts make one attempt; the executor the tests exercise  *)
(* (isRetryableError, retryCount) wraps that attempt in the retry policy,  *)
(* which is modelled here as the design document states it. A message is   *)
(* the sequence of its words.                                              *)
(***************************************************************************)
MaxRetries == 3

Keywords ==
    {<<"timeout">>, <<"connection">>, <<"network">>, <<"temporary">>, <<"rate", "limit">>,
     <<"service", "unavailable">>, <<"connection", "lost">>, <<"query", "timeout">>,
     <<"warehouse", "suspended">>, <<"session", "expired">>}

TransientCodes == {"100072", "100073"}

\* The message contains the keyword.
Includes(message, keyword) ==
    \E i \in 1..(Len(message) - Len(keyword) + 1) :
        SubSeq(message, i, i + Len(keyword) - 1) = keyword

\* isRetryableError with the transient codes left out.
IsRetryableErrorByKeywordOnly(error) ==
    \E k \in Keywords : Includes(error.message, k)

IsRetryableError(error) ==
    \/ error.code \in TransientCodes
    \/ \E k \in Keywords : Includes(error.message, k)

\* The same delay before every retry.
BackoffDelayFixed(n) == 1000

\* Milliseconds slept before attempt n, n >= 2.
BackoffDelay(n) == 2 ^ (n - 2) * 1000

\* What the warehouse answers to one attempt: rows, or an error with a message
\* and, for some, a code.
QueryError(message, code) == [ok |-> FALSE, rows |-> <<>>, message |-> message, code |-> code]

QueryOutcomes ==
    {[ok |-> TRUE, rows |-> <<"DB1">>, message |-> <<>>, code |-> ""],
     QueryError(<<"connection", "timeout">>, ""), QueryError(<<"timeout", "error">>, ""),
     QueryError(<<"syntax", "error">>, ""), QueryError(<<"permanent", "error">>, ""),
     QueryError(<<"query", "timeout">>, "100072"), QueryError(<<"connection", "lost">>, "100073"),
     QueryError(<<"rate", "limit", "exceeded">>, ""), QueryError(<<"internal", "error">>, "100072")}

\* An attempt that resolves with no rows when the warehouse reports an error.
SettleSwallowsError(outcome) == [resolved |-> TRUE, rows |-> outcome.rows]

\* One attempt, the complete callback of connection.execute: reject(err) or
\* resolve(rows || []).
Settle(outcome) == [resolved |-> outcome.ok, rows |-> outcome.rows]

\* Attempt n of a query whose attempts the warehouse answers with script, the
\* earlier attempts having failed: acc holds the delays slept and the errors
\* classified so far.
RECURSIVE ExecuteWithRetry(_, _, _)
ExecuteWithRetry(script, n, acc) ==
    LET s == Settle(script[n])
        retryable == IsRetryableError(script[n])
        seen == [acc EXCEPT !.attempts = n, !.last = script[n],
                            !.classified = IF s.resolved THEN @
                                           ELSE Append(@, <<script[n], retryable>>)]
    IN IF s.resolved THEN [seen EXCEPT !.pc = "resolved", !.rows = s.rows]
       ELSE IF retryable /\ n < MaxRetries
       THEN ExecuteWithRetry(script, n + 1,
                [seen EXCEPT !.delays = Append(@, BackoffDelay(n + 1)),
                             !.elapsed = @ + BackoffDelay(n + 1)])
       ELSE [seen EXCEPT !.pc = "rejected"]

InitRetry ==
    /\ now = 0
    /\ warehouse = [u \in {U1} |-> Row(0, UsersV1)]
    /\ metadata = {}
    /\ syncStats = <<>>
    /\ createAttempts = <<>>
    /\ run = IdleRun
    /\ nRuns = 0
    /\ nDdl = 0
    /\ call = IdleCall
    /\ legacy = IdleLegacy
    /\ cs = IdleCs
    /\ findOrder = TripleOrder
    /\ nFaults = 0
    /\ sf = IdleSf
    /\ \E script \in [1..MaxRetries -> QueryOutcomes] :
         ex = [pc |-> "ready", script |-> script, attempts |-> 0, delays |-> <<0>>,
               elapsed |-> 0, classified |-> <<>>, last |-> script[1], rows |-> <<>>]
    /\ ext = IdleExt

\* A query is executed: the first attempt at once, the retries after their delays.
ExecuteQueryCall ==
    /\ ex.pc = "ready"
    /\ ex' = ExecuteWithRetry(ex.script, 1, ex)
    /\ UNCHANGED <<now, warehouse, metadata, syncStats, createAttempts, run, nRuns, nDdl,
                   call, legacy, cs, findOrder, nFaults, sf, ext>>

RetrySpec == InitRetry /\ [][ExecuteQueryCall]_vars

(***************************************************************************)
(* SnowflakeService: extraction from INFORMATION_SCHEMA.TABLES, the second *)
(* version of the service in snowflake.service.ts                          *)
(***************************************************************************)
\* The queries of one extraction of the second version that may be rejected.
QueriesV2 == Queries \cup {Q("TABLES", <<>>)}

\* getAllTablesWithShowCommands: getDatabases and getSchemas pass a rejection
\* on, getTables answers it with no tables; there is no incremental filter.
AllTablesWithShowCommands(wh, F) ==
    LET databases == {u.database : u \in {v \in DOMAIN wh :
                          ToUpperCase(v.database) \notin {"INFORMATION_SCHEMA", "SNOWFLAKE"}}}
    IN IF \/ Q("SHOW DATABASES", <<>>) \in F
          \/ \E d \in databases : Q("SHOW SCHEMAS", <<d>>) \in F
       THEN [threw |-> TRUE, tables |-> <<>>]
       ELSE [threw |-> FALSE,
             tables |-> SelectSeq(TripleOrder,
                 LAMBDA u : /\ u \in DOMAIN wh
                            /\ u.database \in databases
                            /\ ToUpperCase(u.schema) # "INFORMATION_SCHEMA"
                            /\ Q("SHOW TABLES", <<u.database, u.schema>>) \notin F)]

\* getAllTablesInAccount of the second version without the catch block: a
\* rejected query is passed on.
AllTablesInAccountV2NoFallback(wh, lastSyncTime, F, currentDb) ==
    IF Q("TABLES", <<>>) \in F THEN [threw |-> TRUE, tables |-> <<>>]
    ELSE [threw |-> FALSE,
          tables |-> SelectSeq(TripleOrder,
              LAMBDA u : /\ u \in DOMAIN wh
                         /\ u.database = currentDb
                         /\ u.schema # "INFORMATION_SCHEMA"
                         /\ u.database # "SNOWFLAKE"
                         /\ \A since \in lastSyncTime : wh[u].last_altered > since)]

\* getAllTablesInAccount of the second version: the tables of the session's
\* current database, filtered by the WHERE clause of the query, whose string
\* comparisons are exact; the SHOW commands when the query is rejected.
AllTablesInAccountV2(wh, lastSyncTime, F, currentDb) ==
    IF Q("TABLES", <<>>) \in F THEN AllTablesWithShowCommands(wh, F)
    ELSE [threw |-> FALSE,
          tables |-> SelectSeq(TripleOrder,
              LAMBDA u : /\ u \in DOMAIN wh
                         /\ u.database = currentDb
                         /\ u.schema # "INFORMATION_SCHEMA"
                         /\ u.database # "SNOWFLAKE"
                         /\ \A since \in lastSyncTime : wh[u].last_altered > since)]

\* getAllTables of the second version: [threw, error, tables].
GetAllTablesV2(wh, lastSyncTime, F, e, currentDb) ==
    LET candidates == AllTablesInAccountV2(wh, lastSyncTime, F, currentDb)
    IN IF Q("connect", <<>>) \in F
       THEN [threw |-> TRUE, error |-> ErrConnect, tables |-> <<>>]
       ELSE IF candidates.threw
       THEN [threw |-> TRUE, error |-> e, tables |-> <<>>]
       ELSE [threw |-> FALSE, error |-> None,
             tables |-> IF Len(candidates.tables) = 0 THEN <<>>
                        ELSE ColumnsPerDatabase(wh, DatabasesOf(candidates.tables, <<>>),
                                                candidates.tables, F)]

(***************************************************************************)
(* One extraction by either version of the service, over the contents the  *)
(* account may have, the watermarks, and the queries that are rejected.    *)
(***************************************************************************)
InitExtract ==
    /\ now = 1
    /\ \E S \in SUBSET Triples :
         warehouse \in [S -> {Row(0, UsersV1), Row(1, UsersV2),
                              [last_altered |-> 0, columns |-> UsersV1],
                              [CREATED_ON |-> "unreadable", last_altered |-> 0,
                               columns |-> UsersV1]}]
    /\ metadata = {}
    /\ syncStats = <<>>
    /\ createAttempts = <<>>
    /\ run = IdleRun
    /\ nRuns = 0
    /\ nDdl = 0
    /\ call = IdleCall
    /\ legacy = IdleLegacy
    /\ cs = IdleCs
    /\ findOrder = TripleOrder
    /\ nFaults = 0
    /\ sf = IdleSf
    /\ ex = IdleEx
    /\ \E version \in {1, 2}, lastSyncTime \in {{}, {0}},
          F \in {G \in SUBSET QueriesV2 : Cardinality(G) <= MaxFaults},
          currentDb \in {u.database : u \in Triples} :
         /\ version = 1 => currentDb = "DB" /\ Q("TABLES", <<>>) \notin F
         /\ ext = [pc |-> "ready", version |-> version, lastSyncTime |-> lastSyncTime,
                   F |-> F, currentDb |-> currentDb,
                   out |-> [threw |-> FALSE, error |-> None, tables |-> <<>>]]

\* getAllTables(lastSyncTime)
Extract ==
    /\ ext.pc = "ready"
    /\ ext' = [ext EXCEPT !.pc = "done",
                          !.out = IF ext.version = 1
                                  THEN GetAllTables(warehouse, ext.lastSyncTime, ext.F, ErrQuery)
                                  ELSE GetAllTablesV2(warehouse, ext.lastSyncTime, ext.F,
                                                      ErrQuery, ext.currentDb)]
    /\ UNCHANGED <<now, warehouse, metadata, syncStats, createAttempts, run, nRuns, nDdl,
                   call, legacy, cs, findOrder, nFaults, sf, ex>>

ExtractSpec == InitExtract /\ [][Extract]_vars

\* Extraction over an account whose database DB holds up to four tables: two
\* of them in one schema, two of them with one table name, two of them with
\* one key string.
BatchTriples == {U1, U4, U5, U6}

InitBatch ==
    /\ now = 1
    /\ \E S \in SUBSET BatchTriples :
         warehouse \in [S -> {Row(0, UsersV1), Row(1, UsersV2)}]
    /\ metadata = {}
    /\ syncStats = <<>>
    /\ createAttempts = <<>>
    /\ run = IdleRun
    /\ nRuns = 0
    /\ nDdl = 0
    /\ call = IdleCall
    /\ legacy = IdleLegacy
    /\ cs = IdleCs
    /\ findOrder = TripleOrder
    /\ nFaults = 0
    /\ sf = IdleSf
    /\ ex = IdleEx
    /\ \E version \in {1, 2}, lastSyncTime \in {{}, {0}},
          F \in {G \in SUBSET QueriesV2 : Cardinality(G) <= MaxFaults} :
         /\ version = 1 => Q("TABLES", <<>>) \notin F
         /\ ext = [pc |-> "ready", version |-> version, lastSyncTime |-> lastSyncTime,
                   F |-> F, currentDb |-> "DB",
                   out |-> [threw |-> FALSE, error |-> None, tables |-> <<>>]]

BatchSpec == InitBatch /\ [][Extract]_vars

(***************************************************************************)
(* Two overlapping calls of upsertMetadata (bulk version): each awaits its *)
(* find and then its bulkWrite, and the other call's steps may come in     *)
(* between.                                                                *)
(***************************************************************************)
Syncs == {"first", "second"}

InitOverlap ==
    /\ now = 0
    /\ warehouse = <<>>
    /\ metadata = {}
    /\ syncStats = <<>>
    /\ createAttempts = <<>>
    /\ run = IdleRun
    /\ nRuns = 0
    /\ nDdl = 0
    /\ call = [c \in Syncs |-> [pc |-> "idle", ops |-> <<>>, error |-> None]]
    /\ legacy = IdleLegacy
    /\ cs = IdleCs
    /\ findOrder = TripleOrder
    /\ nFaults = 0
    /\ sf = IdleSf
    /\ ex = IdleEx
    /\ ext = IdleExt

\* upsertMetadata(tables) up to the await of bulkWrite: the checksums, the
\* find and the loop that prepares the operations from what the find returned.
UpsertFind(c) ==
    /\ call[c].pc = "idle"
    /\ \E tables \in UNION {[1..k -> {Table(u, cols) : u \in UserTriples,
                                                      cols \in ColumnLists}] :
                             k \in 1..MaxBatch},
          findFails \in BOOLEAN :
         LET sorted == SortedTables(tables)
             ops == BulkOps(sorted, Checksums(tables),
                            ExistingMap(Find(metadata, tables), findOrder), now)
         IN call' = [call EXCEPT ![c] =
                       IF findFails THEN [pc |-> "threw", ops |-> <<>>, error |-> ErrFind]
                       ELSE IF ops = <<>> THEN [pc |-> "returned", ops |-> ops, error |-> None]
                       ELSE [pc |-> "writing", ops |-> ops, error |-> None]]
    /\ now' = now + 1
    /\ UNCHANGED <<sf, ex, ext, warehouse, metadata, syncStats, createAttempts, run, nRuns,
                   nDdl, legacy, cs, findOrder, nFaults>>

\* The rest of the call: bulkWrite on the store as it is by now, then the
\* return or the rethrow.
UpsertBulkWrite(c) ==
    /\ call[c].pc = "writing"
    /\ \E reach \in 0..Len(call[c].ops) :
         LET w == BulkWrite(metadata, call[c].ops, reach)
         IN /\ metadata' = w.store
            /\ call' = [call EXCEPT ![c].pc =
                                       IF reach < Len(call[c].ops) \/ w.writeErrors > 0
                                       THEN "threw" ELSE "returned",
                                    ![c].error =
                                       IF reach < Len(call[c].ops) THEN ErrBulkConnection
                                       ELSE IF w.writeErrors > 0 THEN ErrDuplicateKey
                                       ELSE None]
    /\ UNCHANGED <<sf, ex, ext, now, warehouse, syncStats, createAttempts, run, nRuns, nDdl,
                   legacy, cs, findOrder, nFaults>>

NextOverlap == \E c \in Syncs : UpsertFind(c) \/ UpsertBulkWrite(c)

OverlapSpec == InitOverlap /\ [][NextOverlap]_vars

(***************************************************************************)
(* Properties                                                              *)
(***************************************************************************)
Sum(counts) == counts.newTables + counts.updatedTables + counts.skippedTables

Occurrences(s, c) == Cardinality({i \in 1..Len(s) : s[i] = c})

\* b holds the elements of a, each as often, in some order.
PermutationOf(a, b) ==
    /\ Len(a) = Len(b)
    /\ \A c \in Range(a) \cup Range(b) : Occurrences(a, c) = Occurrences(b, c)

\* C1: every SyncRun record appended by syncMetadata, on the success path and
\* on the failure path, has totalTables = newTables + updatedTables +
\* skippedTables.
C1_TotalIsSum ==
    \A i \in 1..Len(syncStats) : syncStats[i].totalTables = Sum(syncStats[i])

\* C1 witness: the history holds the record of a successful run that handled
\* tables and the record of a failed run.
C1_Witness ==
    \E i, j \in 1..Len(syncStats) :
        /\ syncStats[i].success /\ syncStats[i].totalTables > 0
        /\ ~syncStats[j].success

\* C2: when upsertMetadata returns (bulk version and per-table version), the
\* three counts are non-negative and sum to the number of input tables.
C2_CountsSumToInput ==
    /\ call.pc = "returned" =>
          /\ Sum(call.result) = Len(call.input)
          /\ call.result.newTables >= 0 /\ call.result.updatedTables >= 0
          /\ call.result.skippedTables >= 0
    /\ legacy.pc = "returned" =>
          /\ Sum(legacy.result) = Len(legacy.input)
          /\ legacy.result.newTables >= 0 /\ legacy.result.updatedTables >= 0
          /\ legacy.result.skippedTables >= 0

\* C3: a table that has a record and whose columns changed in the warehouse
\* after the last successful sync is returned by the next run's extraction
\* (when no query of it is rejected) and counted by that run as updated.
C3_ChangedTableIsUpdated ==
    /\ (run.pc = "upsert" /\ ~run.faults) =>
          \A u \in run.changed : \E i \in 1..Len(run.tables) : Triple(run.tables[i]) = u
    /\ (run.pc = "returned" /\ run.upsertOk /\ ~run.faults) =>
          run.response.stats.updatedTables >= Cardinality(run.changed)

\* C4: when upsertMetadata has returned and is called again with the same
\* tables, the second call returns {0, 0, len(tables)} and writes nothing: it
\* issues no operation and leaves the collection as it was.
C4_SecondCallSkipsAll ==
    (call.pc = "returned" /\ call.repeat) =>
        /\ call.result = [ZeroCounts EXCEPT !.skippedTables = Len(call.input)]
        /\ call.ops = <<>>
        /\ metadata = call.before

\* C4 witness: the second call, with two tables, has returned on a collection
\* the first call filled.
C4_Witness ==
    /\ call.pc = "returned" /\ call.repeat
    /\ Len(call.input) = 2
    /\ Cardinality(call.before) = 2

\* C5: each input table is classified New (insertOne) exactly when no stored
\* record has its triple, Changed (updateOne) exactly when such a record exists
\* and its checksum differs from the one just computed, else Unchanged.
C5_ClassifiedByOwnTriple ==
    (call.pc # "idle" /\ call.classes # <<>>) =>
        \A i \in 1..Len(call.input) :
            LET t == call.input[i]
                own == {d \in call.before : Triple(d) = Triple(t)}
            IN /\ call.classes[i] = "insertOne" <=> own = {}
               /\ call.classes[i] = "updateOne" <=>
                     \E d \in own : d.checksum # GenerateChecksum(t)

\* C6: generateChecksum is deterministic and independent of the order of the
\* columns: a permutation of a column sequence has the checksum of the
\* original, and a second computation on the same table gives the same value.
C6_OrderIndependent ==
    cs.pc = "done" =>
        /\ cs.again = cs.c1
        /\ PermutationOf(cs.in1.columns, cs.in2.columns) => cs.c1 = cs.c2

\* C7: the checksum depends on the column content only: tables with the same
\* columns have equal checksums whatever their identity and column order, and
\* tables whose columns differ in a name, type or nullability have different
\* checksums.
C7_ContentOnly ==
    cs.pc = "done" =>
        /\ PermutationOf(cs.in1.columns, cs.in2.columns) => cs.c1 = cs.c2
        /\ Range(cs.in1.columns) # Range(cs.in2.columns) => cs.c1 # cs.c2

\* C8: syncMetadata never raises: whichever step fails, the call ends by
\* returning a response, success true or false.
C8_NeverRaises ==
    /\ run.pc # "raised"
    /\ run.pc = "returned" =>
          /\ run.response # NoResponse
          /\ run.response.success = (run.failedAt = None)

\* C8 witness: a call has returned although persistence failed and the write
\* of the run record failed as well.
C8_Witness ==
    run.pc = "returned" /\ run.failedAt = "upsertMetadata" /\ run.createFailed

\* C9: when a step of the run fails, the response has success = false, the
\* four table counts 0 and the error's message in errors (the fallback text
\* when the error has none), and the call hands a SyncRun to the store with
\* success = false and these counts and errors.
C9_FailureIsReportedAndRecorded ==
    (run.pc \in {"saveFailure", "returned"} /\ run.failedAt # None) =>
        /\ ~run.response.success
        /\ run.response.stats.totalTables = 0 /\ Sum(run.response.stats) = 0
        /\ run.response.stats.newTables = 0 /\ run.response.stats.updatedTables = 0
        /\ run.response.errors = <<ErrorMessage(run.error)>>
        /\ run.error # "" => run.error \in Range(run.response.errors)
        /\ run.pc = "returned" =>
              /\ Len(createAttempts) = 1
              /\ ~createAttempts[1].success
              /\ createAttempts[1].totalTables = 0 /\ Sum(createAttempts[1]) = 0
              /\ createAttempts[1].errors = run.response.errors

\* C9 witness: a run whose extraction was rejected has returned after handing
\* its record to the store.
C9_Witness ==
    /\ run.pc = "returned" /\ run.failedAt = "getAllTables" /\ run.error = ErrQuery
    /\ Len(createAttempts) = 1

\* C10: a rejected append of the SyncRun never changes the result: the call
\* still returns, and it returns the response computed before the append,
\* success = true with the upsert's counts when extraction and upsert succeeded.
C10_RejectedAppendKeepsResult ==
    run.createFailed =>
        /\ run.pc = "returned"
        /\ run.response =
              IF run.upsertOk
              THEN SuccessResponse(Len(run.tables), run.upsertResults,
                                   run.endTime - run.startTime)
              ELSE FailureResponse(run.error, run.endTime - run.startTime)
        /\ run.upsertOk => run.response.success

\* C10 witness: a run that inserted a table has returned success although the
\* append of its record was rejected.
C10_Witness ==
    /\ run.pc = "returned" /\ run.createFailed /\ run.upsertOk
    /\ run.response.success /\ run.response.stats.newTables > 0

C12_CallClosesItsConnection ==
    \A c \in Callers :
        sf.callers[c].pc = "done" => /\ sf.conns[c] # "open"
                                     /\ sf.callers[c].destroyed # {}

\* C13: each of two concurrent runs owns the connection it opened: its queries
\* are issued on it, its disconnect destroys it, and no connection is open
\* once both runs have finished.
C13_RunOwnsItsConnection ==
    /\ \A c \in Callers : /\ sf.callers[c].used \subseteq {c}
                          /\ sf.callers[c].destroyed \subseteq {c}
    /\ (\A c \in Callers : sf.callers[c].pc = "done")
          => \A i \in Callers : sf.conns[i] # "open"

\* C14: from its reset on, the query counter equals the number of executeQuery
\* calls of the run that reset it, up to the line its disconnect logs; another
\* run neither resets nor increments it.
C14_CounterCountsOwnQueries ==
    \A c \in Callers :
        /\ (sf.callers[c].reset /\ sf.callers[c].pc \in {"query", "disconnecting"})
              => sf.queryCount = sf.callers[c].executed
        /\ (sf.callers[c].reset /\ sf.callers[c].pc = "done")
              => sf.callers[c].logged = sf.callers[c].executed

C18_NoSystemObjects ==
    ext.pc = "done" =>
        \A i \in 1..Len(ext.out.tables) :
            /\ ToUpperCase(ext.out.tables[i].database) \notin {"SNOWFLAKE", "INFORMATION_SCHEMA"}
            /\ ToUpperCase(ext.out.tables[i].schema) # "INFORMATION_SCHEMA"

\* C19: when SHOW SCHEMAS of a database or SHOW TABLES of a schema is rejected,
\* the extraction does not fail for it, and every table it would return without
\* these rejections, and whose own database and schema were enumerated, is
\* still returned, in either version and whichever tier ran.
C19_NodeFailureIsContained ==
    LET node == {q \in ext.F : q[1] \in {"SHOW SCHEMAS", "SHOW TABLES"}}
        base == IF ext.version = 1
                THEN GetAllTables(warehouse, ext.lastSyncTime, ext.F \ node, ErrQuery)
                ELSE GetAllTablesV2(warehouse, ext.lastSyncTime, ext.F \ node, ErrQuery,
                                    ext.currentDb)
    IN (ext.pc = "done" /\ node # {} /\ ~base.threw) =>
          /\ ~ext.out.threw
          /\ \A i \in 1..Len(base.tables) :
                (/\ Q("SHOW SCHEMAS", <<base.tables[i].database>>) \notin node
                 /\ Q("SHOW TABLES", <<base.tables[i].database, base.tables[i].schema>>)
                       \notin node)
                => \E j \in 1..Len(ext.out.tables) : ext.out.tables[j] = base.tables[i]

\* C20: when the batched column query of a database is rejected, the result
\* holds one table for each candidate table of that database, in their order,
\* with the columns its own column query gave (none when that was rejected
\* too), and the tables of the other databases are what they are without the
\* rejection.
C20_BatchFailureFallsBackPerTable ==
    LET batch == {q \in ext.F : q[1] = "COLUMNS"}
        cands == IF ext.version = 1
                 THEN AllTablesInAccount(warehouse, ext.lastSyncTime, ext.F)
                 ELSE AllTablesInAccountV2(warehouse, ext.lastSyncTime, ext.F,
                                           ext.currentDb).tables
        base == IF ext.version = 1
                THEN GetAllTables(warehouse, ext.lastSyncTime, ext.F \ batch, ErrQuery)
                ELSE GetAllTablesV2(warehouse, ext.lastSyncTime, ext.F \ batch, ErrQuery,
                                    ext.currentDb)
        In(tables, d) == SelectSeq(tables, LAMBDA t : t.database = d)
    IN (ext.pc = "done" /\ batch # {}) =>
          /\ ext.out.threw = base.threw
          /\ ~ext.out.threw =>
                \A d \in {u.database : u \in Triples} :
                    LET got == In(ext.out.tables, d)
                        of == In(cands, d)
                    IN IF Q("COLUMNS", <<d>>) \in batch
                       THEN /\ Len(got) = Len(of)
                            /\ \A i \in 1..Len(of) :
                                  /\ Triple(got[i]) = of[i]
                                  /\ got[i].columns =
                                        IF Q("TABLE COLUMNS",
                                             <<d, of[i].schema, of[i].table>>) \in ext.F
                                        THEN <<>> ELSE warehouse[of[i]].columns
                       ELSE got = In(base.tables, d)

\* The batched column query of database DB was rejected, that of DB.A was not,
\* and the extraction returned the table of each.
C20_Witness ==
    /\ ext.pc = "done"
    /\ ~ext.out.threw
    /\ Q("COLUMNS", <<"DB">>) \in ext.F
    /\ Q("COLUMNS", <<"DB.A">>) \notin ext.F
    /\ \E i, j \in 1..Len(ext.out.tables) :
          /\ ext.out.tables[i].database = "DB"
          /\ ext.out.tables[j].database = "DB.A"

C24_ItemFailureKeepsCounts ==
    (call.pc # "idle" /\ call.ops # <<>> /\ call.error \notin {ErrFind, ErrBulkConnection})
    => /\ \A i \in 1..Len(call.ops) :
             call.ops[i].op = "insertOne"
             => \E d \in metadata : Triple(d) = call.ops[i].triple
       /\ call.pc = "returned"
       /\ call.result.newTables = Cardinality(metadata) - Cardinality(call.before)
       /\ call.result.skippedTables =
             SkippedCount(Len(call.input), call.result.newTables,
                          call.result.updatedTables)

\* C25: whatever calls of upsertMetadata ran, one after the other or with
\* their finds and bulk writes interleaved, the store holds at most one record
\* of a triple.
C25_OneRecordPerTriple ==
    \A d, e \in metadata : Triple(d) = Triple(e) => d = e

\* Two calls both found no record of a triple and both prepared its insert;
\* both bulk writes reached the store, which rejected the later insert.
C25_Witness ==
    \E c, d \in Syncs :
       /\ call[c].pc = "returned"
       /\ call[d].pc = "threw"
       /\ call[d].error = ErrDuplicateKey
       /\ \E i \in 1..Len(call[c].ops), j \in 1..Len(call[d].ops) :
            /\ call[c].ops[i].op = "insertOne"
            /\ call[d].ops[j].op = "insertOne"
            /\ call[c].ops[i].triple = call[d].ops[j].triple
            /\ call[c].ops[i].lastSynced # call[d].ops[j].lastSynced

\* C26: a syncMetadata call that returns has handed exactly one record to
\* syncStatsModel.create, the record of its response (of the success path or
\* of the failure path), and no call raises instead of returning; no step
\* changes or removes a record of the run history: the history only grows at
\* its end, by at most one record per step.
C26_OneAppendPerRun ==
    [][/\ Len(syncStats) <= Len(syncStats')
       /\ Len(syncStats') <= Len(syncStats) + 1
       /\ \A i \in 1..Len(syncStats) : syncStats'[i] = syncStats[i]
       /\ run'.pc # "raised"
       /\ (run.pc # "returned" /\ run'.pc = "returned")
          => /\ Len(createAttempts') = 1
             /\ createAttempts'[1] =
                   SyncStatsPayload(run'.response, run'.startTime, run'.endTime)
             /\ createAttempts'[1].success <=> run'.failedAt = None]_vars

\* The second run failed and handed one record to create, which the history
\* holds after the record of the first run.
C26_Witness ==
    /\ run.pc = "returned"
    /\ run.failedAt # None
    /\ Len(createAttempts) = 1
    /\ Len(syncStats) = 2
    /\ syncStats[2] = createAttempts[1]
    /\ syncStats[1].success

\* The records of a store without their lastSynced.
Contents(store) ==
    {[triple |-> Triple(d), columns |-> d.columns, checksum |-> d.checksum] : d \in store}

\* C27: the first run failed, the warehouse has not changed since it started,
\* and the second run went through without a rejected request. Then the store
\* holds the records, columns and checksums that one upsertMetadata call
\* without a failure writes for the extracted tables into the empty store the
\* first run started from.
C27_RepeatEqualsSingleRun ==
    (/\ nRuns = 2
     /\ run.pc = "returned"
     /\ run.failedAt = None
     /\ ~run.faults
     /\ Len(syncStats) >= 1
     /\ ~syncStats[1].success
     /\ \A u \in DOMAIN warehouse : warehouse[u].last_altered <= syncStats[1].syncStartTime)
    => Contents(metadata) =
         Contents(UpsertMetadata({}, run.tables, now, FALSE, findOrder,
                                 Len(run.tables)).store)

\* C28: a call of upsertMetadata with no tables returns {newTables: 0,
\* updatedTables: 0, skippedTables: 0}; it does not call find, prepares no
\* bulk operation and leaves the store as it was.
C28_EmptyInputTouchesNothing ==
    (call.pc # "idle" /\ call.input = <<>>)
    => /\ call.pc = "returned"
       /\ call.result = ZeroCounts
       /\ ~call.read
       /\ call.ops = <<>>
       /\ metadata = call.before

\* A call with no tables returned on a store that holds records.
C28_Witness ==
    /\ call.pc = "returned"
    /\ call.input = <<>>
    /\ call.before # {}
    /\ metadata = call.before

\* C29: after a call of upsertMetadata, the only writer of the catalog store,
\* every triple that had a record before the call has one, whether or not
\* the call's tables name it and however the call ended.
C29_NoRecordRemoved ==
    call.pc # "idle"
    => \A d \in call.before : \E e \in metadata : Triple(e) = Triple(d)

\* A call changed the store, its tables did not name a triple that had a
\* record, and the record is still there.
C29_Witness ==
    /\ call.pc # "idle"
    /\ metadata # call.before
    /\ \E d \in call.before :
         /\ \A i \in 1..Len(call.input) : Triple(call.input[i]) # Triple(d)
         /\ d \in metadata

\* C30: when a required environment variable is missing, no getAllTables call
\* gets to connection.connect or to a query: its connection is created and
\* never opened, it executes nothing, it rethrows the error of checkEnvVars,
\* and the sync answers with the failure response that carries this error.
C30_MissingEnvFailsBeforeConnect ==
    (sf.pc = "serving" /\ ~sf.env)
    => \A c \in Callers :
         /\ sf.callers[c].pc \in {"idle", "disconnecting", "done"}
         /\ sf.conns[c] \in {"none", "created"}
         /\ sf.callers[c].executed = 0
         /\ sf.callers[c].used = {}
         /\ sf.callers[c].pc # "idle"
            => sf.callers[c].threw /\ sf.callers[c].error = ErrMissingEnv
         /\ sf.callers[c].pc = "done"
            => /\ ~sf.callers[c].response.success
               /\ sf.callers[c].response.message = "Metadata sync failed"
               /\ sf.callers[c].response.errors = <<ErrMissingEnv>>

\* With a variable missing, a getAllTables call has rethrown and its sync has
\* its failure response.
C30_Witness ==
    /\ sf.pc = "serving"
    /\ ~sf.env
    /\ \E c \in Callers :
         /\ sf.callers[c].pc = "done"
         /\ sf.callers[c].destroyed # {}
         /\ sf.callers[c].response = FailureResponse(ErrMissingEnv, 0)

\* C31: every syncMetadata call that was started returns its response, the
\* success response or the failure response, when each awaited request settles.
C31_RunTerminates ==
    (run.pc = "getSyncStats") ~> (run.pc = "returned" /\ run.response # NoResponse)

\* A run went through every step and returned the success response, and a run
\* before it had failed.
C31_Witness ==
    /\ run.pc = "returned"
    /\ run.response.success
    /\ Len(syncStats) = 2
    /\ ~syncStats[1].success

C33_StoredChecksumIsOfStoredColumns ==
    (call.pc = "returned" /\ call.n = 1)
    => \A d \in metadata : d.checksum = GenerateChecksum(d)

\* C34: a table a call of upsertMetadata classified as unchanged gets no
\* operation in the bulk, and the record of its triple, with its columns,
\* checksum and lastSynced, is in the store after the call as it was before.
C34_UnchangedIsNotWritten ==
    (call.pc # "idle" /\ call.classes # <<>>)
    => \A i \in 1..Len(call.input) :
         call.classes[i] = "skip"
         => /\ \A j \in 1..Len(call.ops) :
                 call.ops[j].triple # Triple(call.input[i])
            /\ \A d \in call.before :
                 Triple(d) = Triple(call.input[i]) => d \in metadata

\* A second call classified a table as unchanged and returned; the record of
\* the table is the one the first call wrote, with the time of that call.
C34_Witness ==
    /\ call.pc = "returned"
    /\ call.n = 2
    /\ \E i \in 1..Len(call.classes) :
         /\ call.classes[i] = "skip"
         /\ \E d \in call.before :
              /\ Triple(d) = Triple(call.input[i])
              /\ d \in metadata
              /\ d.lastSynced = 0

\* C35: after a call of upsertMetadata that returned, the record of every
\* table the call inserted or updated holds the columns in the order in which
\* the table was handed in, and the caller's tables have their columns in
\* that order too.
C35_ColumnsKeepTheirOrder ==
    (call.pc = "returned" /\ call.read)
    => /\ \A i \in 1..Len(call.input) :
            AfterChecksum(call.input[i]).columns = call.input[i].columns
       /\ \A j \in 1..Len(call.ops) :
            \A d \in metadata :
               Triple(d) = call.ops[j].triple
               => \E i \in 1..Len(call.input) :
                     /\ Triple(call.input[i]) = Triple(d)
                     /\ d.columns = call.input[i].columns

\* C36: every descriptor an extraction returns has the (database, schema,
\* table) of a candidate, i.e. of a table the enumeration listed and the
\* incremental filter kept; the batched column query adds no other table.
Candidates ==
    IF ext.version = 1
    THEN AllTablesInAccount(warehouse, ext.lastSyncTime, ext.F)
    ELSE AllTablesInAccountV2(warehouse, ext.lastSyncTime, ext.F, ext.currentDb).tables

C36_OnlyCandidatesReturned ==
    (ext.pc = "done" /\ ~ext.out.threw) =>
        \A i \in 1..Len(ext.out.tables) :
            \E j \in 1..Len(Candidates) :
                /\ Candidates[j].database = ext.out.tables[i].database
                /\ Candidates[j].schema = ext.out.tables[i].schema
                /\ Candidates[j].table = ext.out.tables[i].table

\* C37: the lookups keyed by the string database.schema.table keep distinct
\* triples apart: upsertMetadata compares each input table with the stored
\* record of its own triple and with a checksum computed of a table of its own
\* triple, and a descriptor built by groupColumnsIntoTables holds the columns
\* of its own table only (or none, when its column query was rejected).
C37_KeysKeepTriplesApart ==
    /\ call.pc # "idle" =>
          LET existingMap == ExistingMap(Find(call.before, call.input), findOrder)
              checksums == Checksums(call.input)
          IN \A i \in 1..Len(call.input) :
                LET t == call.input[i]
                IN /\ Key(t) \in DOMAIN existingMap =>
                          Triple(existingMap[Key(t)]) = Triple(t)
                   /\ \E j \in 1..Len(call.input) :
                          /\ Triple(call.input[j]) = Triple(t)
                          /\ checksums[Key(t)] = GenerateChecksum(call.input[j])
    /\ (ext.pc = "done" /\ ~ext.out.threw) =>
          \A i \in 1..Len(ext.out.tables) :
             LET t == ext.out.tables[i]
             IN /\ Triple(t) \in DOMAIN warehouse
                /\ t.columns \in {<<>>, warehouse[Triple(t)].columns}

\* C38: a table created while a successful run was in progress, after the
\* run's start and hence after its extraction, and before the syncEndTime the
\* run recorded, is among the tables the extraction of the next run returns
\* when none of its queries is rejected.
CreatedDuring(u, s) ==
    /\ s.success
    /\ s.syncStartTime < warehouse[u].created_on
    /\ warehouse[u].created_on < s.syncEndTime

C38_CreatedDuringRunIsExtractedLater ==
    (run.pc = "upsert" /\ ~run.faults /\ Len(syncStats) > 0) =>
        \A u \in UserTriples \cap DOMAIN warehouse :
            CreatedDuring(u, syncStats[Len(syncStats)]) =>
                \E i \in 1..Len(run.tables) : Triple(run.tables[i]) = u

\* C39: no step replaces the columns of a stored record by an empty list: a
\* record that holds columns keeps holding columns, also when the per-table
\* column query of its table was rejected during the run.
C39_ColumnsNeverEmptied ==
    [][\A d \in metadata : d.columns # <<>> =>
          \A e \in metadata' : Triple(e) = Triple(d) => e.columns # <<>>]_vars
====
